---- MODULE Spec2Model ----
(***************************************************************************)
(* A model of molpal's Acquirer (src/molpal/acquirer/acquirer.py): the     *)
(* batch-size schedule, the initial acquisition, and the batch acquisition *)
(* with its epsilon-greedy step, its bounded top-k heap, the clustered     *)
(* round-robin selection and the hybrid (objs + fps) selection.            *)
(*                                                                         *)
(* Pool items are the integers 1..size, streamed in that order; utilities  *)
(* are small naturals, Inf standing for numpy's inf.  A heap is the list   *)
(* heapq keeps, with heapq's own sift operations; heap entries are the     *)
(* tuples <<u, x>> and compare as Python tuples do.                        *)
(***************************************************************************)
EXTENDS Integers, Sequences, FiniteSets, TLC

VARIABLES
    size,             \* self.size
    init_size,        \* self.init_size (resolved by its setter)
    batch_sizes,      \* self.batch_sizes (resolved by its setter)
    epsilon,          \* self.epsilon, as the numerator of epsilon = epsilon/EpsDen
    cluster_type,     \* self.cluster_type
    cluster_superset, \* self.cluster_superset
    rng,              \* the process-wide generator of molpal.acquirer.metrics
    pc,               \* where the running call stands
    phase,            \* which caller the running top_k / clustered_batch serves
    U,                \* acquire_batch: the utility array, after U[idxs] = inf
    explored,         \* acquire_batch: the keys of the explored mapping
    bsz,              \* acquire_batch: batch_size = self.batch_size(t)
    idxs,             \* acquire_batch: the indices np.random.choice drew
    i,                \* top_k / acquire_initial: position in zip(xs, U)
    heap,             \* top_k / acquire_initial: heap
    cap,              \* top_k: its batch_size parameter
    excl,             \* top_k: its explored parameter
    n,                \* clustered_batch: its batch_size parameter
    superset,         \* clustered_batch: superset
    cluster_ids,      \* clustered_batch: cluster_ids, as item -> cluster id
    clusters,         \* clustered_batch: clusters, cluster id -> heap of <<-u, x>>
    cluster_order,    \* clustered_batch: cluster_order
    pos,              \* clustered_batch: position of cluster_cycle in cluster_order
    batch_heap,       \* clustered_batch: heap (the list of picked <<u, x>>)
    heap_objs,        \* cluster_both: heap_objs
    batch,            \* the list a call returned
    diag,             \* whether acquire_batch printed "Cluster type ... not recognized"
    t,                \* the round index a call was given
    ret,              \* the value batch_size(t) returned
    seed,             \* the seed argument the Acquirer was constructed with
    init_arg,         \* the init_size argument the Acquirer was constructed with
    calls,            \* acquire_initial calls returned since construction
    prev,             \* the list the previous acquire_initial call of this Acquirer returned
    ref,              \* <<the list the first acquire_initial call of the run returned>>
    rebuilt           \* whether the Acquirer was constructed again since ref was set

vars == <<size, init_size, batch_sizes, epsilon, cluster_type, cluster_superset, rng,
          pc, phase, U, explored, bsz, idxs, i, heap, cap, excl, n, superset,
          cluster_ids, clusters, cluster_order, pos, batch_heap, heap_objs, batch,
          diag, t, ret, seed, init_arg, calls, prev, ref, rebuilt>>

(* ------------------------------ bounds -------------------------------- *)

PoolSize == 3      \* the largest pool
MaxBatch == 3      \* the largest entry of a batch-size schedule
MaxSched == 2      \* the longest batch-size schedule
MaxT == 3          \* the largest round index t
MaxU == 1          \* the largest finite utility
MaxSuperset == 2   \* the largest cluster_superset argument
MaxSeed == 3       \* the largest seed
MaxCalls == 2      \* acquire_initial calls on one Acquirer
EpsDen == 2        \* epsilon ranges over 0/EpsDen .. EpsDen/EpsDen
FracDen == 4       \* a fractional size ranges over 0/FracDen .. FracDen/FracDen

(* ------------------------------ values -------------------------------- *)

Inf == MaxU + 1

\* self.cluster_superset = None, kept apart from every size
NoneSuperset == -1

Min(a, b) == IF a <= b THEN a ELSE b

Max(a, b) == IF a >= b THEN a ELSE b

Range(s) == {s[k] : k \in 1..Len(s)}

Items(h) == {e[2] : e \in Range(h)}

ItemList(h) == [k \in 1..Len(h) |-> h[k][2]]

\* Python's tuple order on (u, x)
TupleLess(a, b) == a[1] < b[1] \/ (a[1] = b[1] /\ a[2] < b[2])

\* math.ceil(a / b) for naturals a, b with b > 0
Ceil(a, b) == (a + b - 1) \div b

\* int(a / b) for naturals a, b with b > 0
Floor(a, b) == a \div b

(* ------------------------------- heapq -------------------------------- *)
(* Positions are Python's (0-based); h[p + 1] is heap[p].                 *)

RECURSIVE siftdown(_, _, _, _)
siftdown(h, startpos, p, newitem) ==
    IF p > startpos /\ TupleLess(newitem, h[((p - 1) \div 2) + 1])
    THEN siftdown([h EXCEPT ![p + 1] = h[((p - 1) \div 2) + 1]],
                  startpos, (p - 1) \div 2, newitem)
    ELSE [h EXCEPT ![p + 1] = newitem]

RECURSIVE siftup_loop(_, _, _, _)
siftup_loop(h, startpos, p, newitem) ==
    LET childpos == 2 * p + 1
        rightpos == childpos + 1
        c == IF rightpos < Len(h) /\ ~TupleLess(h[childpos + 1], h[rightpos + 1])
             THEN rightpos ELSE childpos
    IN  IF childpos < Len(h)
        THEN siftup_loop([h EXCEPT ![p + 1] = h[c + 1]], startpos, c, newitem)
        ELSE siftdown([h EXCEPT ![p + 1] = newitem], startpos, p, newitem)

siftup(h, p) == siftup_loop(h, p, p, h[p + 1])

heappush(h, item) == siftdown(Append(h, item), 0, Len(h), item)

\* heappushpop leaves the heap as it was unless heap[0] < item
heappushpop(h, item) ==
    IF Len(h) > 0 /\ TupleLess(h[1], item)
    THEN siftup([h EXCEPT ![1] = item], 0)
    ELSE h

\* heappop: the heap after the pop (the popped entry is h[1])
heappop(h) ==
    LET lastelt == h[Len(h)]
        rest == SubSeq(h, 1, Len(h) - 1)
    IN  IF Len(rest) > 0 THEN siftup([rest EXCEPT ![1] = lastelt], 0) ELSE rest

(* ------------------------ sizes and the schedule ---------------------- *)
(* A size argument is a count [float |-> FALSE, v |-> c] or a fraction    *)
(* [float |-> TRUE, v |-> k], the float k / FracDen.                      *)

SizeArgs == [float : {FALSE}, v : 0..MaxBatch] \cup [float : {TRUE}, v : 0..FracDen]

InitArgs == [float : {FALSE}, v : 0..PoolSize] \cup [float : {TRUE}, v : 0..FracDen]

init_size_floor(sz, a) == IF a.float THEN Floor(sz * a.v, FracDen) ELSE a.v

\* the init_size setter
init_size_setter(sz, a) == IF a.float THEN Ceil(sz * a.v, FracDen) ELSE a.v

\* the batch_sizes setter
batch_sizes_setter(sz, raw) ==
    [k \in 1..Len(raw) |-> IF raw[k].float THEN Ceil(sz * raw[k].v, FracDen) ELSE raw[k].v]

\* whether S[t] is in range, as Python indexes a list
InRange(S, k) == (k >= 0 /\ k < Len(S)) \/ (k < 0 /\ 0 - k <= Len(S))

\* S[k], as Python indexes a list, for k in range
PyIndex(S, k) == IF k >= 0 THEN S[k + 1] ELSE S[Len(S) + k + 1]

batch_size_first(S, k) ==
    IF InRange(S, k) THEN PyIndex(S, k)
    ELSE IF InRange(S, 0) THEN PyIndex(S, 0) ELSE "IndexError"

\* batch_size(t): self.batch_sizes[t], on IndexError self.batch_sizes[-1]
batch_size(S, k) ==
    IF InRange(S, k) THEN PyIndex(S, k)
    ELSE IF InRange(S, 0 - 1) THEN PyIndex(S, 0 - 1) ELSE "IndexError"

\* the raw schedules: non-empty lists of size arguments
RawSchedules == UNION {[1..len -> SizeArgs] : len \in 1..MaxSched}

(* ----------------------- the state between calls ---------------------- *)

NoCall ==
    /\ pc = "idle" /\ phase = "none"
    /\ U = <<>> /\ explored = {} /\ bsz = 0 /\ idxs = {}
    /\ i = 0 /\ heap = <<>> /\ cap = 0 /\ excl = {}
    /\ n = 0 /\ superset = <<>> /\ cluster_ids = <<>> /\ clusters = <<>>
    /\ cluster_order = <<>> /\ pos = 0 /\ batch_heap = <<>> /\ heap_objs = <<>>
    /\ batch = <<>> /\ diag = FALSE /\ t = 0 /\ ret = 0
    /\ calls = 0 /\ prev = <<>> /\ ref = <<>> /\ rebuilt = FALSE

frame == <<phase, U, explored, bsz, idxs, i, heap, cap, excl, n, superset,
           cluster_ids, clusters, cluster_order, pos, batch_heap, heap_objs>>

object == <<size, init_size, batch_sizes, epsilon, cluster_type, cluster_superset>>

ghosts == <<seed, init_arg, calls, prev, ref, rebuilt>>

(* ------------------- the batch-size schedule alone -------------------- *)

SchedInit ==
    /\ size = PoolSize
    /\ \E raw \in RawSchedules : batch_sizes = batch_sizes_setter(size, raw)
    /\ init_size = 0 /\ epsilon = 0 /\ cluster_type = "None"
    /\ cluster_superset = NoneSuperset /\ rng = 0 /\ seed = 0
    /\ init_arg = [float |-> FALSE, v |-> 0]
    /\ NoCall

\* a call batch_size(k)
BatchSizeCall ==
    \E k \in (0 - MaxT)..MaxT :
        /\ t' = k
        /\ ret' = batch_size(batch_sizes, k)
        /\ pc' = "batch_size"
        /\ UNCHANGED <<object, rng, frame, batch, diag, ghosts>>

SchedNext == BatchSizeCall

SpecSched == SchedInit /\ [][SchedNext]_vars

\* C8: for a non-empty schedule S and a round index t >= 0, batch_size(t) is S[t]
\* when t < len(S) and S[-1] when t >= len(S), and it raises no IndexError.
C8_BatchSizeTotal ==
    (pc = "batch_size" /\ t >= 0) =>
        /\ ret \in Nat
        /\ t < Len(batch_sizes) => ret = batch_sizes[t + 1]
        /\ t >= Len(batch_sizes) => ret = batch_sizes[Len(batch_sizes)]

C8_Witness ==
    /\ pc = "batch_size" /\ t > Len(batch_sizes) /\ Len(batch_sizes) = 2
    /\ batch_sizes[1] # batch_sizes[2]
    /\ ret = batch_sizes[2]

(* ------------------- molpal.acquirer.metrics: the RNG ----------------- *)
(* set_seed sets the state of the process-wide generator; random(Y) draws *)
(* len(Y) scores from it, each draw advancing the state.  The generator   *)
(* is a full-period linear congruential one, so the scores of one array   *)
(* are distinct, as continuous floats are.                                *)

RngMod == 8

RngMul == 5

RngInc == 3

set_seed(sd) == sd % RngMod

rng_next(s) == (RngMul * s + RngInc) % RngMod

RECURSIVE rng_after(_, _)
rng_after(s, k) == IF k = 0 THEN s ELSE rng_after(rng_next(s), k - 1)

\* metrics.random(np.empty(k)), drawn from state s
random(s, k) == [j \in 1..k |-> rng_after(s, j)]

(* --------------------------- acquire_initial --------------------------- *)

seed_rng_skip(s, sd) == s

\* __init__: metrics.set_seed(seed), s the generator's state before the call
seed_rng(s, sd) == set_seed(sd)

InitialInit ==
    /\ size \in 0..PoolSize
    /\ init_arg \in InitArgs
    /\ init_size = init_size_setter(size, init_arg)
    /\ seed \in 0..MaxSeed
    /\ \E s \in 0..(RngMod - 1) : rng = seed_rng(s, seed)
    /\ batch_sizes = <<0>> /\ epsilon = 0 /\ cluster_type = "None"
    /\ cluster_superset = NoneSuperset
    /\ NoCall

\* the Acquirer is constructed again, with the same arguments
Rebuild ==
    /\ pc \in {"idle", "returned"}
    /\ rng' = seed_rng(rng, seed)
    /\ init_size' = init_size_setter(size, init_arg)
    /\ pc' = "idle"
    /\ calls' = 0 /\ prev' = <<>> /\ batch' = <<>>
    /\ rebuilt' = (Len(ref) > 0)
    /\ UNCHANGED <<size, batch_sizes, epsilon, cluster_type, cluster_superset,
                   frame, diag, t, ret, seed, init_arg, ref>>

\* acquire_initial(xs), xs the pool 1..size: U = metrics.random(np.empty(self.size))
AcquireInitial ==
    /\ pc \in {"idle", "returned"}
    /\ calls < MaxCalls
    /\ U' = random(rng, size)
    /\ rng' = rng_after(rng, size)
    /\ heap' = <<>>
    /\ i' = 1
    /\ pc' = "initial"
    /\ prev' = batch
    /\ batch' = <<>>
    /\ UNCHANGED <<object, phase, explored, bsz, idxs, cap, excl, n, superset,
                   cluster_ids, clusters, cluster_order, pos, batch_heap, heap_objs,
                   diag, t, ret, seed, init_arg, calls, ref, rebuilt>>

\* one iteration of the loop over zip(xs, U), unclustered path
initial_step(h, x, u, k) ==
    IF Len(h) < k THEN heappush(h, <<u, x>>) ELSE heappushpop(h, <<u, x>>)

InitialStep ==
    /\ pc = "initial"
    /\ i <= Len(U)
    /\ heap' = initial_step(heap, i, U[i], init_size)
    /\ i' = i + 1
    /\ UNCHANGED <<object, rng, pc, phase, U, explored, bsz, idxs, cap, excl, n,
                   superset, cluster_ids, clusters, cluster_order, pos, batch_heap,
                   heap_objs, batch, diag, t, ret, ghosts>>

\* the loop is over: return [x for _, x in heap]
InitialReturn ==
    /\ pc = "initial"
    /\ i > Len(U)
    /\ batch' = ItemList(heap)
    /\ pc' = "returned"
    /\ calls' = calls + 1
    /\ ref' = IF Len(ref) = 0 THEN <<ItemList(heap)>> ELSE ref
    /\ UNCHANGED <<object, rng, frame, diag, t, ret, seed, init_arg, prev, rebuilt>>

InitialNext == Rebuild \/ AcquireInitial \/ InitialStep \/ InitialReturn

SpecInitial == InitialInit /\ [][InitialNext]_vars

\* C2: with a fractional init_size f = init_arg.v / FracDen, acquire_initial over
\* the pool of N = size distinct items returns exactly ceil(N * f) items, each an
\* item of the pool, none twice.
C2_InitialCount ==
    (pc = "returned" /\ init_arg.float) =>
        /\ Len(batch) * FracDen >= size * init_arg.v
        /\ (Len(batch) - 1) * FracDen < size * init_arg.v
        /\ Range(batch) \subseteq 1..size
        /\ Cardinality(Range(batch)) = Len(batch)

C2_Witness ==
    /\ pc = "returned" /\ init_arg.float
    /\ size = PoolSize /\ init_arg.v = 1
    /\ Len(batch) = 1

\* C7 as stated: two successive acquire_initial calls on one Acquirer return the
\* same set of items.
C7_SuccessiveCallsAgree ==
    (pc = "returned" /\ calls >= 2) => Range(batch) = Range(prev)

\* C7 as amended: the first acquire_initial call after the Acquirer is constructed
\* with a given seed returns the same list every time construction and call are
\* repeated with the same seed and inputs.
C7_FreshSeedDeterministic ==
    (pc = "returned" /\ calls = 1) => batch = ref[1]

C7_Witness ==
    /\ pc = "returned" /\ calls = 1 /\ rebuilt
    /\ Len(batch) > 0 /\ Len(batch) < size
    /\ batch = ref[1]

(* ---------------------------- construction ----------------------------- *)

SupersetFactor == 10

\* the recognised cluster types, None, and a string that is none of them
ClusterTypes == {"None", "objs", "fps", "both", "kmeans"}

\* __init__: self.cluster_superset, arg the cluster_superset argument
\* (NoneSuperset when it is not given)
cluster_superset_init(ct, arg, S) ==
    IF ct # "None"
    THEN (IF arg # NoneSuperset /\ arg # 0 THEN arg ELSE SupersetFactor * S[1])
    ELSE NoneSuperset

\* an Acquirer that acquires batches from a pool of PoolSize items: its schedule
\* has one entry (batch_size over longer schedules is SpecSched's), so every round
\* has that batch size
BatchInit ==
    /\ size = PoolSize
    /\ \E a \in SizeArgs : batch_sizes = batch_sizes_setter(size, <<a>>)
    /\ epsilon \in 0..EpsDen
    /\ cluster_type \in ClusterTypes
    /\ \E arg \in {NoneSuperset} \cup 0..MaxSuperset :
           cluster_superset = cluster_superset_init(cluster_type, arg, batch_sizes)
    /\ init_size = 0 /\ rng = 0 /\ seed = 0
    /\ init_arg = [float |-> FALSE, v |-> 0]
    /\ NoCall

(* ------------------------------- top_k --------------------------------- *)

top_k_step_noskip(h, x, u, k, ex) ==
    IF Len(h) < k THEN heappush(h, <<u, x>>) ELSE heappushpop(h, <<u, x>>)

top_k_step_overfull(h, x, u, k, ex) ==
    IF x \in ex THEN h
    ELSE IF Len(h) <= k THEN heappush(h, <<u, x>>) ELSE heappushpop(h, <<u, x>>)

\* one iteration of top_k's loop over zip(xs, U)
top_k_step(h, x, u, k, ex) ==
    IF x \in ex THEN h
    ELSE IF Len(h) < k THEN heappush(h, <<u, x>>) ELSE heappushpop(h, <<u, x>>)

\* top_k(xs, U, batch_size, explored) from position j on, h the heap so far
RECURSIVE top_k(_, _, _, _, _)
top_k(h, j, Us, k, ex) ==
    IF j > Len(Us) THEN h ELSE top_k(top_k_step(h, j, Us[j], k, ex), j + 1, Us, k, ex)

(* ---------------------------- acquire_batch ---------------------------- *)

dispatch_no_fallback(ct) ==
    IF ct = "None" THEN "none"
    ELSE IF ct = "both" THEN "objs"
    ELSE "single"

\* the branch acquire_batch takes on self.cluster_type
dispatch(ct) ==
    IF ct = "None" THEN "none"
    ELSE IF ct \in {"fps", "objs"} THEN "single"
    ELSE IF ct = "both" THEN "objs"
    ELSE "fallback"

\* cluster_both: batch_size_objs
batch_size_objs(b) == Ceil(b, 2)

\* cluster_both: batch_size_fps
batch_size_fps(b) == b - batch_size_objs(b)

\* acquire_batch(xs, y_means, y_vars, explored, t = k), xs the pool 1..size, up to
\* the first iteration of top_k: U0 is what metrics.calc returned, ids what
\* np.random.choice drew (it raises when asked for more than U.size indices)
AcquireBatch ==
    /\ pc = "idle"
    /\ \E U0 \in [1..size -> 0..MaxU], ex \in SUBSET (1..size),
          k \in 0..Len(batch_sizes) :
        LET b == batch_size(batch_sizes, k)
            m == Floor(b * epsilon, EpsDen)
            d == dispatch(cluster_type)
        IN  /\ m <= size
            /\ \E ids \in {c \in SUBSET (1..size) : Cardinality(c) = m} :
                  /\ idxs' = ids
                  /\ U' = [x \in 1..size |-> IF x \in ids THEN Inf ELSE U0[x]]
            /\ explored' = ex
            /\ bsz' = b
            /\ phase' = d
            /\ diag' = (d = "fallback")
            /\ cluster_type' = IF d = "objs" THEN "objs" ELSE cluster_type
            /\ n' = IF d = "single" THEN b ELSE IF d = "objs" THEN batch_size_objs(b) ELSE 0
            /\ cap' = IF d \in {"single", "objs"} THEN cluster_superset ELSE b
            /\ excl' = ex
    /\ heap' = <<>>
    /\ i' = 1
    /\ pc' = "top_k"
    /\ superset' = <<>> /\ cluster_ids' = <<>> /\ clusters' = <<>>
    /\ cluster_order' = <<>> /\ pos' = 0 /\ batch_heap' = <<>> /\ heap_objs' = <<>>
    /\ batch' = <<>>
    /\ UNCHANGED <<size, init_size, batch_sizes, epsilon, cluster_superset, rng,
                   t, ret, ghosts>>

TopKStep ==
    /\ pc = "top_k"
    /\ i <= Len(U)
    /\ heap' = top_k_step(heap, i, U[i], cap, excl)
    /\ i' = i + 1
    /\ UNCHANGED <<object, rng, pc, phase, U, explored, bsz, idxs, cap, excl, n,
                   superset, cluster_ids, clusters, cluster_order, pos, batch_heap,
                   heap_objs, batch, diag, t, ret, ghosts>>

\* top_k returned to acquire_batch: return [x for _, x in heap]
TopKReturn ==
    /\ pc = "top_k"
    /\ i > Len(U)
    /\ phase \in {"none", "fallback"}
    /\ batch' = ItemList(heap)
    /\ pc' = "returned"
    /\ UNCHANGED <<object, rng, frame, diag, t, ret, ghosts>>

(* --------------------------- clustered_batch --------------------------- *)

\* top_k returned an empty superset in objs mode: np.stack([]) raises ValueError
SupersetRaise ==
    /\ pc = "top_k"
    /\ i > Len(U)
    /\ phase \in {"single", "objs", "fps"}
    /\ Len(heap) = 0 /\ cluster_type # "fps"
    /\ superset' = heap
    /\ pc' = "raised"
    /\ UNCHANGED <<object, rng, phase, U, explored, bsz, idxs, i, heap, cap, excl, n,
                   cluster_ids, clusters, cluster_order, pos, batch_heap, heap_objs,
                   batch, diag, t, ret, ghosts>>

\* top_k returned the superset; the cluster basis is built (in fps mode by
\* feature_matrix, which is taken to return for every superset, the empty one too)
SupersetReady ==
    /\ pc = "top_k"
    /\ i > Len(U)
    /\ phase \in {"single", "objs", "fps"}
    /\ Len(heap) > 0 \/ cluster_type = "fps"
    /\ superset' = heap
    /\ pc' = "cluster"
    /\ UNCHANGED <<object, rng, phase, U, explored, bsz, idxs, i, heap, cap, excl, n,
                   cluster_ids, clusters, cluster_order, pos, batch_heap, heap_objs,
                   batch, diag, t, ret, ghosts>>

\* the ids the clustering backend may return when asked for k clusters (it is
\* taken to return ids also when k = 0)
ClusterIds(k) == 0..(Max(k, 1) - 1)

\* clusters: one heap of <<-u, x>> per id of np.unique(cluster_ids), filled in
\* superset order from position j on
RECURSIVE fill_clusters(_, _, _, _)
fill_clusters(cl, ss, ids, j) ==
    IF j > Len(ss) THEN cl
    ELSE fill_clusters(
             [cl EXCEPT ![ids[ss[j][2]]] = heappush(@, <<0 - ss[j][1], ss[j][2]>>)],
             ss, ids, j + 1)

make_clusters(ss, ids) ==
    fill_clusters([c \in {ids[x] : x \in DOMAIN ids} |-> <<>>], ss, ids, 1)

\* sorted(keys, key = len of the cluster, reverse = rev): Python's sort is stable and
\* the keys come in np.unique's ascending order
RECURSIVE sorted_by_len(_, _, _)
sorted_by_len(cl, keys, rev) ==
    IF keys = {} THEN <<>>
    ELSE LET first == CHOOSE c \in keys : \A d \in keys \ {c} :
                          \/ (rev /\ Len(cl[c]) > Len(cl[d]))
                          \/ (~rev /\ Len(cl[c]) < Len(cl[d]))
                          \/ (Len(cl[c]) = Len(cl[d]) /\ c < d)
         IN  <<first>> \o sorted_by_len(cl, keys \ {first}, rev)

sorted_clusters_ascending(cl) == sorted_by_len(cl, DOMAIN cl, FALSE)

\* cluster_order = sorted(clusters, key=lambda k: len(clusters[k]), reverse=True)
sorted_clusters(cl) == sorted_by_len(cl, DOMAIN cl, TRUE)

\* cluster_fps returned ids; clusters, cluster_order and cluster_cycle are built
ClusterFps ==
    /\ pc = "cluster"
    /\ \E ids \in [Items(superset) -> ClusterIds(n)] :
          /\ cluster_ids' = ids
          /\ clusters' = make_clusters(superset, ids)
          /\ cluster_order' = sorted_clusters(make_clusters(superset, ids))
    /\ pos' = 1
    /\ batch_heap' = <<>>
    /\ pc' = "extract"
    /\ UNCHANGED <<object, rng, phase, U, explored, bsz, idxs, i, heap, cap, excl, n,
                   superset, heap_objs, batch, diag, t, ret, ghosts>>

\* one turn of the while loop: cid = next(cluster_cycle), and a pop when
\* clusters[cid] is not empty
ExtractVisit ==
    /\ pc = "extract"
    /\ Len(batch_heap) < n
    /\ Len(cluster_order) > 0
    /\ LET cid == cluster_order[pos]
       IN  IF Len(clusters[cid]) > 0
           THEN /\ batch_heap' = Append(batch_heap,
                                        <<0 - clusters[cid][1][1], clusters[cid][1][2]>>)
                /\ clusters' = [clusters EXCEPT ![cid] = heappop(@)]
           ELSE UNCHANGED <<batch_heap, clusters>>
    /\ pos' = (pos % Len(cluster_order)) + 1
    /\ UNCHANGED <<object, rng, pc, phase, U, explored, bsz, idxs, i, heap, cap, excl,
                   n, superset, cluster_ids, cluster_order, heap_objs, batch, diag, t,
                   ret, ghosts>>

\* the while loop over an empty cluster_order: next(cycle([])) raises StopIteration
ExtractRaise ==
    /\ pc = "extract"
    /\ Len(batch_heap) < n
    /\ Len(cluster_order) = 0
    /\ pc' = "raised"
    /\ UNCHANGED <<object, rng, frame, batch, diag, t, ret, ghosts>>

\* clustered_batch returned to acquire_batch: return [x for _, x in heap]
ClusteredReturn ==
    /\ pc = "extract"
    /\ Len(batch_heap) >= n
    /\ phase = "single"
    /\ batch' = ItemList(batch_heap)
    /\ pc' = "returned"
    /\ UNCHANGED <<object, rng, frame, diag, t, ret, ghosts>>

(* ----------------------------- cluster_both ---------------------------- *)

dont_acquire_explored_only(ex, objs) == ex

\* dont_acquire = {**explored, **{x: u for u, x in heap_objs}}, its keys
dont_acquire(ex, objs) == ex \cup Items(objs)

\* the objs call returned: self.cluster_type = 'fps' and the fps call, up to the
\* first iteration of its top_k
ClusterBothSecond ==
    /\ pc = "extract"
    /\ Len(batch_heap) >= n
    /\ phase = "objs"
    /\ heap_objs' = batch_heap
    /\ cluster_type' = "fps"
    /\ phase' = "fps"
    /\ n' = batch_size_fps(bsz)
    /\ cap' = cluster_superset
    /\ excl' = dont_acquire(explored, batch_heap)
    /\ heap' = <<>>
    /\ i' = 1
    /\ pc' = "top_k"
    /\ superset' = <<>> /\ cluster_ids' = <<>> /\ clusters' = <<>>
    /\ cluster_order' = <<>> /\ pos' = 0 /\ batch_heap' = <<>>
    /\ UNCHANGED <<size, init_size, batch_sizes, epsilon, cluster_superset, rng,
                   U, explored, bsz, idxs, batch, diag, t, ret, ghosts>>

\* the fps call returned: self.cluster_type = 'both', and acquire_batch returns
\* the items of chain(heap_fps, heap_objs)
ClusterBothReturn ==
    /\ pc = "extract"
    /\ Len(batch_heap) >= n
    /\ phase = "fps"
    /\ cluster_type' = "both"
    /\ batch' = ItemList(batch_heap \o heap_objs)
    /\ pc' = "returned"
    /\ UNCHANGED <<size, init_size, batch_sizes, epsilon, cluster_superset, rng,
                   frame, diag, t, ret, ghosts>>

\* the caller has the list acquire_batch returned, or its exception, and the
\* call's frame is gone; the Acquirer stays as the call left it
CallEnds ==
    /\ pc \in {"returned", "raised"}
    /\ pc' = "idle" /\ phase' = "none"
    /\ U' = <<>> /\ explored' = {} /\ bsz' = 0 /\ idxs' = {}
    /\ i' = 0 /\ heap' = <<>> /\ cap' = 0 /\ excl' = {}
    /\ n' = 0 /\ superset' = <<>> /\ cluster_ids' = <<>> /\ clusters' = <<>>
    /\ cluster_order' = <<>> /\ pos' = 0 /\ batch_heap' = <<>> /\ heap_objs' = <<>>
    /\ batch' = <<>> /\ diag' = FALSE
    /\ UNCHANGED <<object, rng, t, ret, ghosts>>

BatchNext ==
    \/ AcquireBatch
    \/ CallEnds
    \/ TopKStep
    \/ TopKReturn
    \/ SupersetRaise
    \/ SupersetReady
    \/ ClusterFps
    \/ ExtractVisit
    \/ ExtractRaise
    \/ ClusteredReturn
    \/ ClusterBothSecond
    \/ ClusterBothReturn

SpecBatch == BatchInit /\ [][BatchNext]_vars

(* ------------------- the bounded heap, on any input -------------------- *)

\* top_k(xs, U, batch_size, explored) entered on its own, xs the pool 1..size: any
\* utilities, any explored set, any capacity from 0 on
TopKInit ==
    /\ size \in 0..PoolSize
    /\ batch_sizes = <<0>> /\ epsilon = 0 /\ cluster_type = "None"
    /\ cluster_superset = NoneSuperset
    /\ init_size = 0 /\ rng = 0 /\ seed = 0
    /\ init_arg = [float |-> FALSE, v |-> 0]
    /\ pc = "top_k" /\ phase = "none"
    /\ U \in [1..size -> 0..MaxU]
    /\ excl \in SUBSET (1..size)
    /\ cap \in 0..MaxBatch
    /\ heap = <<>> /\ i = 1
    /\ explored = {} /\ bsz = 0 /\ idxs = {}
    /\ n = 0 /\ superset = <<>> /\ cluster_ids = <<>> /\ clusters = <<>>
    /\ cluster_order = <<>> /\ pos = 0 /\ batch_heap = <<>> /\ heap_objs = <<>>
    /\ batch = <<>> /\ diag = FALSE /\ t = 0 /\ ret = 0
    /\ calls = 0 /\ prev = <<>> /\ ref = <<>> /\ rebuilt = FALSE

HeapInit == InitialInit \/ TopKInit

HeapNext == InitialNext \/ TopKStep

SpecHeap == HeapInit /\ [][HeapNext]_vars

(* ----------------------- properties of acquire_batch ------------------- *)

Unexplored == (1..size) \ explored

\* C1: when the clustering mode is none, the batch top_k selects holds no key of the
\* explored mapping and holds exactly min(batch_size, |pool \ explored|) items.
C1_TopKSkipsExplored ==
    (pc = "returned" /\ phase = "none") =>
        /\ Range(batch) \cap explored = {}
        /\ Len(batch) = Min(bsz, Cardinality(Unexplored))
        /\ Cardinality(Range(batch)) = Len(batch)

C1_Witness ==
    /\ pc = "returned" /\ phase = "none"
    /\ explored # {} /\ Cardinality(Unexplored) > bsz /\ bsz > 0
    /\ \E x \in explored : \A y \in Range(batch) : U[x] > U[y]
    /\ Len(batch) = bsz

\* C3: in every acquire_batch round the floor(epsilon * batch_size) items the
\* epsilon-greedy step drew have utility inf, and each of them is in the batch the
\* round returns.
C3_ForcedItemsAcquired ==
    (pc = "returned") =>
        /\ Cardinality(idxs) = Floor(epsilon * bsz, EpsDen)
        /\ \A x \in idxs : U[x] = Inf
        /\ idxs \subseteq Range(batch)

\* C4: in objs or fps mode the clustered superset is the top-k of size
\* max(cluster_superset, batch_size) over the unexplored items, so with at least
\* batch_size unexplored items the extraction loop ends (it never cycles over
\* clusters that are all empty with the batch unfilled) and batch_size items are
\* returned.
C4_ClusteredTerminates ==
    (phase = "single" /\ Cardinality(Unexplored) >= bsz) =>
        /\ pc \in {"cluster", "extract", "returned"} =>
               Len(superset) = Min(Max(cluster_superset, bsz), Cardinality(Unexplored))
        /\ ~(/\ pc = "extract"
              /\ Len(batch_heap) < n
              /\ \A c \in DOMAIN clusters : Len(clusters[c]) = 0)
        /\ pc = "returned" => Len(batch) = bsz

\* C5: in hybrid mode the fps call never holds an item the objs call chose, nor a
\* key of the explored mapping, and the batch returned is the two sub-batches, no
\* item twice.
C5_HybridDisjoint ==
    (phase = "fps") =>
        /\ (Items(heap) \cup Items(superset) \cup Items(batch_heap))
               \cap (Items(heap_objs) \cup explored) = {}
        /\ pc = "returned" =>
               /\ batch = ItemList(batch_heap) \o ItemList(heap_objs)
               /\ Cardinality(Range(batch)) = Len(batch)

C5_Witness ==
    /\ pc = "returned" /\ phase = "fps"
    /\ Len(heap_objs) > 0 /\ Len(batch_heap) > 0 /\ explored # {}
    /\ \E x \in Items(heap_objs) : \A y \in Items(batch_heap) : U[x] > U[y]

\* the number of items picked so far from cluster c, and c's population at the start
taken(c) == Cardinality({k \in 1..Len(batch_heap) : cluster_ids[batch_heap[k][2]] = c})

population(c) == Cardinality({x \in DOMAIN cluster_ids : cluster_ids[x] = c})

Extracting == pc = "extract" \/ (pc = "returned" /\ phase \in {"single", "fps"})

\* C6: the round-robin extraction visits the clusters in order of descending
\* population and takes the best-scoring remaining item of the cluster at each
\* visit; every cluster has given an item before any cluster gives a second one,
\* and the numbers taken from two clusters that are both still non-empty differ by
\* at most one.
C6_RoundRobin ==
    Extracting =>
        /\ \A k, l \in 1..Len(cluster_order) :
               k < l => population(cluster_order[k]) >= population(cluster_order[l])
        /\ \A k \in 1..Min(Len(batch_heap), Len(cluster_order)) :
               cluster_ids[batch_heap[k][2]] = cluster_order[k]
        /\ \A c, d \in DOMAIN clusters : taken(c) >= 2 => taken(d) >= 1
        /\ \A c, d \in DOMAIN clusters :
               (Len(clusters[c]) > 0 /\ Len(clusters[d]) > 0) =>
                   (taken(c) - taken(d) <= 1 /\ taken(d) - taken(c) <= 1)
        /\ \A k \in 1..Len(batch_heap) : \A e \in Range(clusters[cluster_ids[batch_heap[k][2]]]) :
               batch_heap[k][1] >= 0 - e[1]
        /\ \A k, l \in 1..Len(batch_heap) :
               (k < l /\ cluster_ids[batch_heap[k][2]] = cluster_ids[batch_heap[l][2]]) =>
                   batch_heap[k][1] >= batch_heap[l][1]

C6_Witness ==
    /\ pc = "extract" /\ Len(batch_heap) = 3 /\ Len(cluster_order) = 2
    /\ taken(cluster_order[1]) = 2 /\ taken(cluster_order[2]) = 1
    /\ batch_heap[1][1] > batch_heap[3][1]
    /\ batch_heap[2][1] > batch_heap[1][1]

\* C9: with a cluster type that is not recognised, acquire_batch does not raise; it
\* prints the diagnostic and returns exactly the batch that top_k selects for the
\* same items, utilities, explored mapping and batch size.
C9_UnknownModeFallsBack ==
    (pc # "idle" /\ cluster_type \notin {"None", "objs", "fps", "both"}) =>
        /\ diag
        /\ pc # "raised"
        /\ pc = "returned" =>
               /\ batch = ItemList(top_k(<<>>, 1, U, bsz, explored))
               /\ Range(batch) \cap explored = {}
               /\ Len(batch) = Min(bsz, Cardinality(Unexplored))
               /\ \A x \in Range(batch), y \in Unexplored \ Range(batch) :
                      TupleLess(<<U[y], y>>, <<U[x], x>>)

C9_Witness ==
    /\ pc = "returned" /\ cluster_type = "kmeans" /\ diag
    /\ cluster_superset # bsz /\ bsz > 0
    /\ explored # {} /\ Len(batch) = bsz /\ Cardinality(Unexplored) > bsz

\* C10: when a hybrid acquire_batch call ends, by a return or by an exception of a
\* sub-call, self.cluster_type is 'both' again.
C10_HybridModeRestored ==
    (pc \in {"returned", "raised"} /\ phase \in {"objs", "fps"}) => cluster_type = "both"

(* -------------------- properties of the bounded heap ------------------ *)

\* a bounded-heap loop is running: top_k's, or acquire_initial's unclustered one
HeapLoop == pc \in {"top_k", "initial"}

Capacity == IF pc = "top_k" THEN cap ELSE init_size

Skipped(x) == pc = "top_k" /\ x \in excl

\* the eligible items among those the loop has processed, as heap entries
Eligible == {<<U[x], x>> : x \in {y \in 1..(i - 1) : ~Skipped(y)}}

MinEntry(S) == CHOOSE m \in S : \A e \in S : m = e \/ TupleLess(m, e)

BoundedHeap ==
    HeapLoop =>
        /\ Len(heap) <= Capacity
        /\ Len(heap) = Min(Capacity, Cardinality(Eligible))
        /\ Range(heap) \subseteq Eligible
        /\ Cardinality(Range(heap)) = Len(heap)
        /\ \A e \in Eligible \ Range(heap), h \in Range(heap) : e[1] <= h[1]
        /\ \A j \in 1..Len(heap) : heap[1] = heap[j] \/ TupleLess(heap[1], heap[j])

EvictsMinimum ==
    (HeapLoop /\ i' = i + 1) =>
        LET all == Range(heap) \cup {<<U[i], i>>}
        IN  IF Skipped(i) THEN heap' = heap
            ELSE IF Len(heap) < Capacity THEN Range(heap') = all
            ELSE /\ Range(heap') = all \ {MinEntry(all)}
                 /\ \A e \in all : MinEntry(all)[1] <= e[1]

\* C11: after each item of the stream that top_k, or the unclustered loop of
\* acquire_initial, has processed, for every capacity from 0 on, the heap holds at
\* most capacity entries, and they are exactly the min(capacity, n) entries of
\* greatest utility among the n eligible (unexplored) items processed so far; an
\* item that arrives when the heap is at capacity evicts the entry of least utility.
C11_BoundedHeapInvariant == []BoundedHeap /\ [][EvictsMinimum]_vars

C11_Witness ==
    /\ pc = "top_k" /\ cap = 1 /\ Len(heap) = cap /\ i > Len(U)
    /\ excl \cap 1..(i - 1) # {}
    /\ Cardinality(Eligible) > cap
    /\ \E e \in Eligible \ Range(heap) : e[1] < heap[1][1]

====
